---- MODULE Spec2Model ----
(***************************************************************************)
(* A model of data_loader.py: the batch loader that reads the MHC CSV      *)
(* exports, reshapes them and replaces the tables of MHC_Project.db.       *)
(*                                                                         *)
(* Text is a sequence of one-character strings, so that lower(), upper(),  *)
(* replace(), strip() and the substring test `in` are computed character   *)
(* by character.  A CSV cell, once read by pandas, is one of               *)
(*   NaN (missing), Str(text) or Num(integer).                             *)
(***************************************************************************)
EXTENDS Integers, Sequences, FiniteSets, TLC

(***************************************************************************)
(* Text.                                                                   *)
(***************************************************************************)
Chars(s) == [i \in 1..Len(s) |-> SubSeq(s, i, i)]

LowerLetters == Chars("abcdefghijklmnopqrstuvwxyz")
UpperLetters == Chars("ABCDEFGHIJKLMNOPQRSTUVWXYZ")
Digits == Chars("0123456789")
Whitespace == {" ", "\t", "\n", "\r"}

Position(alphabet, c) ==
    IF \E i \in 1..Len(alphabet) : alphabet[i] = c
    THEN CHOOSE i \in 1..Len(alphabet) : alphabet[i] = c
    ELSE 0

\* the case maps of the letters, tabulated once
ToUpper == [c \in {LowerLetters[i] : i \in 1..Len(LowerLetters)} |->
               UpperLetters[Position(LowerLetters, c)]]
ToLower == [c \in {UpperLetters[i] : i \in 1..Len(UpperLetters)} |->
               LowerLetters[Position(UpperLetters, c)]]

UpperChar(c) == IF c \in DOMAIN ToUpper THEN ToUpper[c] ELSE c
LowerChar(c) == IF c \in DOMAIN ToLower THEN ToLower[c] ELSE c

\* str.upper() and str.lower()
Upper(s) == [i \in 1..Len(s) |-> UpperChar(s[i])]
Lower(s) == [i \in 1..Len(s) |-> LowerChar(s[i])]

\* Python's `needle in hay` for two texts
Contains(hay, needle) ==
    \E i \in 0..(Len(hay) - Len(needle)) : SubSeq(hay, i + 1, i + Len(needle)) = needle

\* str.replace(c, r) for a one-character pattern c and a replacement text r
RECURSIVE Replace(_, _, _)
Replace(s, c, r) ==
    IF s = <<>> THEN <<>>
    ELSE (IF Head(s) = c THEN r ELSE <<Head(s)>>) \o Replace(Tail(s), c, r)

RECURSIVE LStrip(_)
LStrip(s) ==
    IF s # <<>> /\ Head(s) \in Whitespace THEN LStrip(Tail(s)) ELSE s

RECURSIVE RStrip(_)
RStrip(s) ==
    IF s # <<>> /\ s[Len(s)] \in Whitespace THEN RStrip(SubSeq(s, 1, Len(s) - 1)) ELSE s

\* str.strip()
Strip(s) == RStrip(LStrip(s))

(***************************************************************************)
(* Cells of a data frame.                                                  *)
(***************************************************************************)
NaN == [k |-> "nan"]
Str(s) == [k |-> "str", s |-> s]
Num(n) == [k |-> "num", n |-> n]

\* pd.isna / Series.notna on one cell
isna(c) == c.k = "nan"
IsStr(c) == c.k = "str"
IsNum(c) == c.k = "num"

\* None as a column name: read_csv never yields an empty header, and the
\* code tests resolved names by truthiness, which an empty name fails too.
None == <<>>

RECURSIVE NatText(_)
NatText(n) ==
    IF n < 10 THEN <<Digits[n + 1]>> ELSE NatText(n \div 10) \o <<Digits[(n % 10) + 1]>>

\* str(n) for an integer
IntText(n) == IF n < 0 THEN <<"-">> \o NatText(0 - n) ELSE NatText(n)

\* Series.astype(str) on one cell: a missing value becomes the text 'nan'
astype_str(c) ==
    IF isna(c) THEN Str(Chars("nan"))
    ELSE IF IsNum(c) THEN Str(IntText(c.n))
    ELSE c

\* Series.astype(str).str.strip() on one cell
astype_str_strip(c) == Str(Strip(astype_str(c).s))

(***************************************************************************)
(* Numbers and dates.                                                      *)
(***************************************************************************)
IsDigit(c) == Position(Digits, c) > 0
DigitVal(c) == Position(Digits, c) - 1

AllDigits(s) == s # <<>> /\ \A i \in 1..Len(s) : IsDigit(s[i])

RECURSIVE NatVal(_)
NatVal(s) ==
    IF s = <<>> THEN 0 ELSE 10 * NatVal(SubSeq(s, 1, Len(s) - 1)) + DigitVal(s[Len(s)])

\* pd.to_numeric(errors='coerce') on one cell, for integer texts
to_numeric(c) ==
    IF IsNum(c) THEN c
    ELSE IF isna(c) THEN NaN
    ELSE LET t == Strip(c.s)
         IN  IF AllDigits(t) THEN Num(NatVal(t))
             ELSE IF t # <<>> /\ Head(t) = "-" /\ AllDigits(Tail(t)) THEN Num(0 - NatVal(Tail(t)))
             ELSE NaN

IsLeap(y) == y % 4 = 0 /\ (y % 100 # 0 \/ y % 400 = 0)

DaysInMonth(y, m) ==
    IF m = 2 THEN (IF IsLeap(y) THEN 29 ELSE 28)
    ELSE IF m \in {4, 6, 9, 11} THEN 30
    ELSE 31

RECURSIVE DaysBeforeMonth(_, _)
DaysBeforeMonth(y, m) ==
    IF m = 1 THEN 0 ELSE DaysBeforeMonth(y, m - 1) + DaysInMonth(y, m - 1)

\* the proleptic Gregorian ordinal of a date, as datetime.date.toordinal
Ordinal(y, m, d) ==
    LET p == y - 1
    IN  365 * p + (p \div 4) - (p \div 100) + (p \div 400) + DaysBeforeMonth(y, m) + d

NaT == [k |-> "nat"]
Date(y, m, d) == [k |-> "date", y |-> y, m |-> m, d |-> d]
IsNaT(t) == t.k = "nat"

\* pd.to_datetime(errors='coerce') on one cell.  The texts of the model
\* are ISO dates (YYYY-MM-DD) or texts that are no date; a number is
\* nanoseconds since the epoch.
to_datetime(c) ==
    IF isna(c) THEN NaT
    ELSE IF IsNum(c) THEN Date(1970, 1, 1)
    ELSE LET t == Strip(c.s)
         IN  IF /\ Len(t) = 10
                /\ t[5] = "-" /\ t[8] = "-"
                /\ \A i \in {1, 2, 3, 4, 6, 7, 9, 10} : IsDigit(t[i])
             THEN LET y == NatVal(SubSeq(t, 1, 4))
                      m == NatVal(SubSeq(t, 6, 7))
                      d == NatVal(SubSeq(t, 9, 10))
                  IN  IF y >= 1 /\ m \in 1..12 /\ d \in 1..DaysInMonth(y, m)
                      THEN Date(y, m, d)
                      ELSE NaT
             ELSE NaT

Pad(n, width) ==
    LET t == NatText(n)
    IN  [i \in 1..(width - Len(t)) |-> "0"] \o t

\* Series.dt.strftime('%Y-%m-%d') on one timestamp
strftime(t) ==
    IF IsNaT(t) THEN NaN
    ELSE Str(Pad(t.y, 4) \o <<"-">> \o Pad(t.m, 2) \o <<"-">> \o Pad(t.d, 2))

\* pd.to_datetime(col, errors='coerce').dt.strftime('%Y-%m-%d') on one cell
normalize_date(c) == strftime(to_datetime(c))

\* (end - start).dt.days on one pair of timestamps
days_between(start, end) ==
    IF IsNaT(start) \/ IsNaT(end) THEN NaN
    ELSE Num(Ordinal(end.y, end.m, end.d) - Ordinal(start.y, start.m, start.d))

(***************************************************************************)
(* The two helper functions of the loader.                                 *)
(***************************************************************************)
\* create_participant_id without the lower() of line 12
create_participant_id_keeping_case(name) ==
    IF isna(name) \/ ~IsStr(name) THEN NaN
    ELSE Str(Strip(Replace(Replace(Replace(Replace(name.s,
                 " ", <<>>), ",", <<"-">>), ".", <<>>), "/", <<>>)))

\* create_participant_id(name)
create_participant_id(name) ==
    IF isna(name) \/ ~IsStr(name) THEN NaN
    ELSE Str(Strip(Replace(Replace(Replace(Replace(Lower(name.s),
                 " ", <<>>), ",", <<"-">>), ".", <<>>), "/", <<>>)))

\* the inner loop of find_column_by_keywords: does col match a keyword
col_matches(col, keywords, exact_match) ==
    LET col_upper == Upper(col)
    IN  \E j \in 1..Len(keywords) :
            IF exact_match THEN col_upper = Upper(keywords[j])
            ELSE Contains(col_upper, Upper(keywords[j]))

\* find_column_by_keywords with the two loops of lines 17 and 19 exchanged
find_column_keyword_first(columns, keywords, exact_match) ==
    LET hits == {p \in (1..Len(keywords)) \X (1..Len(columns)) :
                    col_matches(columns[p[2]], <<keywords[p[1]]>>, exact_match)}
    IN  IF hits = {} THEN None
        ELSE columns[(CHOOSE p \in hits :
                        \A q \in hits : p[1] < q[1] \/ (p[1] = q[1] /\ p[2] <= q[2]))[2]]

\* find_column_by_keywords(df, keywords, exact_match) over df.columns
find_column_by_keywords(columns, keywords, exact_match) ==
    LET hits == {i \in 1..Len(columns) : col_matches(columns[i], keywords, exact_match)}
    IN  IF hits = {} THEN None
        ELSE columns[CHOOSE i \in hits : \A h \in hits : i <= h]

(***************************************************************************)
(* Data frames.  A file on disk is [exists, columns, rows]; a row is a     *)
(* sequence of cells aligned with the columns.                             *)
(***************************************************************************)
Missing == [exists |-> FALSE, columns |-> <<>>, rows |-> <<>>]
File(columns, rows) == [exists |-> TRUE, columns |-> columns, rows |-> rows]

\* df.columns = df.columns.str.strip()
StripColumns(columns) == [i \in 1..Len(columns) |-> Strip(columns[i])]

HasCol(columns, c) == \E i \in 1..Len(columns) : columns[i] = c
ColIx(columns, c) == CHOOSE i \in 1..Len(columns) : columns[i] = c

\* df[c] at row r, and the same for a column that may be None
Cell(columns, row, c) == row[ColIx(columns, c)]
CellOrNaN(columns, row, c) == IF c = None THEN NaN ELSE Cell(columns, row, c)

\* df['Participant_ID'] = ... appends the column unless the frame has it
WithColumn(columns, c) == IF HasCol(columns, c) THEN columns ELSE Append(columns, c)

\* the dtype pandas infers: object when some cell of the column is text
IsObjectColumn(columns, rows, c) ==
    \E r \in 1..Len(rows) : IsStr(Cell(columns, rows[r], c))

RECURSIVE PickFrom(_, _, _)
PickFrom(s, keep, i) ==
    IF i > Len(s) THEN <<>>
    ELSE (IF keep[i] THEN <<s[i]>> ELSE <<>>) \o PickFrom(s, keep, i + 1)

\* the rows of s whose index satisfies keep, in order
Pick(s, keep) == PickFrom(s, keep, 1)

\* DataFrame.drop_duplicates(subset=...) with keep='first', over the keys
FirstOfKey(keys) == [i \in 1..Len(keys) |-> \A j \in 1..(i - 1) : keys[j] # keys[i]]

RECURSIVE Flatten(_)
Flatten(ss) == IF ss = <<>> THEN <<>> ELSE Head(ss) \o Flatten(Tail(ss))

\* the index of the first occurrence of sep in s, 0 when there is none
FindSub(s, sep) ==
    IF Contains(s, sep)
    THEN CHOOSE i \in 1..(Len(s) - Len(sep) + 1) :
            /\ SubSeq(s, i, i + Len(sep) - 1) = sep
            /\ \A j \in 1..(i - 1) : SubSeq(s, j, j + Len(sep) - 1) # sep
    ELSE 0

\* str.split(sep)
RECURSIVE Split(_, _)
Split(s, sep) ==
    LET i == FindSub(s, sep)
    IN  IF i = 0 THEN <<s>>
        ELSE <<SubSeq(s, 1, i - 1)>> \o Split(SubSeq(s, i + Len(sep), Len(s)), sep)

\* str.replace(pat, rep, regex=False) for a pattern of any length
RECURSIVE ReplaceSub(_, _, _)
ReplaceSub(s, pat, rep) ==
    LET i == FindSub(s, pat)
    IN  IF i = 0 THEN s
        ELSE SubSeq(s, 1, i - 1) \o rep \o ReplaceSub(SubSeq(s, i + Len(pat), Len(s)), pat, rep)

\* Series.str.strip() and .str.upper() on a cell of an object column
str_strip(c) == IF IsStr(c) THEN Str(Strip(c.s)) ELSE NaN
str_upper(c) == IF IsStr(c) THEN Str(Upper(c.s)) ELSE NaN

\* what an extractor did: how it ended and the tables it wrote, in order
Result(outcome, writes) == [outcome |-> outcome, writes |-> writes]
Write(table, rows) == [table |-> table, rows |-> rows]

(***************************************************************************)
(* [1] load_diagnosis_codes                                                *)
(***************************************************************************)
DiagnosisPairs == <<<<1, 2>>, <<5, 6>>>>

\* df_data.loc[:, [a, b]] with the rows lacking a code dropped
diagnosis_part(data, pair) ==
    LET keep == [r \in 1..Len(data) |-> ~isna(data[r][pair[1]])]
        rows == [r \in 1..Len(data) |->
                    [Code |-> data[r][pair[1]], Description |-> data[r][pair[2]],
                     src |-> <<pair[1], r>>]]
    IN  Pick(rows, keep)

\* load_diagnosis_codes with df_part2 put before df_part1 in the concat
diagnosis_rows_second_pair_first(f) ==
    LET data == Tail(f.rows)
        concat == diagnosis_part(data, DiagnosisPairs[2]) \o diagnosis_part(data, DiagnosisPairs[1])
        clean == [i \in 1..Len(concat) |->
                    [Code |-> astype_str_strip(concat[i].Code),
                     Description |-> astype_str_strip(concat[i].Description),
                     src |-> concat[i].src]]
        keys == [i \in 1..Len(clean) |-> clean[i].Code]
    IN  Pick(clean, FirstOfKey(keys))

diagnosis_rows(f) ==
    LET data == Tail(f.rows)
        concat == diagnosis_part(data, DiagnosisPairs[1]) \o diagnosis_part(data, DiagnosisPairs[2])
        clean == [i \in 1..Len(concat) |->
                    [Code |-> astype_str_strip(concat[i].Code),
                     Description |-> astype_str_strip(concat[i].Description),
                     src |-> concat[i].src]]
        keys == [i \in 1..Len(clean) |-> clean[i].Code]
    IN  Pick(clean, FirstOfKey(keys))

load_diagnosis_codes_result(f) ==
    IF ~f.exists THEN Result("missing", <<>>)
    ELSE IF f.rows = <<>> \/ \E r \in 1..Len(f.rows) : Len(f.rows[r]) < DiagnosisPairs[2][2]
    THEN Result("raised", <<>>)
    ELSE Result("written", <<Write("DIAGNOSIS_CODE", diagnosis_rows(f))>>)

(***************************************************************************)
(* [2] load_participants_and_enrollment                                    *)
(***************************************************************************)
REQUIRED_COL_NAME == Chars("Participant Name")

race_cols == <<Chars("Race: White"), Chars("Race: Black"), Chars("Race: Native American"),
               Chars("Race: Asian"), Chars("Race: Other")>>

demo_cols == <<Chars("DOB"), Chars("Gender")>> \o race_cols

enrollment_cols == <<Chars("Date Started MHC"), Chars("Date Ended MHC"),
                     Chars("Length of MHC"), Chars("End Status")>>

\* determine_race(row) over the five race flags of a merged row
determine_race(flags) ==
    LET set == [i \in 1..Len(race_cols) |-> flags[i] = Num(1)]
        races == Pick([i \in 1..Len(race_cols) |->
                          ReplaceSub(race_cols[i], Chars("Race: "), <<>>)], set)
    IN  IF Len(races) = 1 THEN Str(races[1])
        ELSE IF Len(races) > 1 THEN Str(Chars("Multi-Racial"))
        ELSE NaN

\* the row of the de-duplicated demographics frame merged onto a key
demo_match(dcols, drows, pid) ==
    LET dpid == [q \in 1..Len(drows) |->
                    create_participant_id(Cell(dcols, drows[q], REQUIRED_COL_NAME))]
        first == FirstOfKey(dpid)
        hits == {q \in 1..Len(drows) : first[q] /\ dpid[q] = pid}
    IN  IF hits = {} THEN 0 ELSE CHOOSE q \in hits : TRUE

\* name_parts = df[REQUIRED_COL_NAME].astype(str).str.split(', ', expand=True)
name_parts(name) == Split(astype_str(name).s, Chars(", "))

\* df_roster['Participant_ID']
roster_pid(rcols, rrows) ==
    [r \in 1..Len(rrows) |-> create_participant_id(Cell(rcols, rrows[r], REQUIRED_COL_NAME))]

participant_rows(rcols, rrows, dcols, drows) ==
    LET pid == roster_pid(rcols, rrows)
        firsts == FirstOfKey(pid)
        merged == [r \in 1..Len(rrows) |->
            LET q == demo_match(dcols, drows, pid[r])
                parts == name_parts(Cell(rcols, rrows[r], REQUIRED_COL_NAME))
                demo(c) == IF q = 0 THEN NaN ELSE Cell(dcols, drows[q], c)
            IN  [Participant_ID |-> pid[r],
                 First_Name |-> IF Len(parts) >= 2 THEN Str(Strip(parts[2])) ELSE NaN,
                 Last_Name |-> Str(Strip(parts[1])),
                 Date_of_Birth |-> normalize_date(demo(Chars("DOB"))),
                 Gender |-> demo(Chars("Gender")),
                 Race_Ethnicity |-> determine_race([i \in 1..Len(race_cols) |-> demo(race_cols[i])]),
                 src |-> r]]
    IN  Pick(merged, [r \in 1..Len(rrows) |-> firsts[r] /\ ~isna(pid[r])])

\* the enrollment frame without the dropna of line 191
enrollment_rows_keeping_all(rcols, rrows) ==
    [r \in 1..Len(rrows) |->
        [Participant_ID |-> create_participant_id(Cell(rcols, rrows[r], REQUIRED_COL_NAME)),
         Start_Date |-> normalize_date(Cell(rcols, rrows[r], enrollment_cols[1])),
         End_Date |-> normalize_date(Cell(rcols, rrows[r], enrollment_cols[2])),
         End_Status |-> Cell(rcols, rrows[r], enrollment_cols[4]),
         Length_Days |-> Cell(rcols, rrows[r], enrollment_cols[3]),
         src |-> r]]

enrollment_rows(rcols, rrows) ==
    LET all == [r \in 1..Len(rrows) |->
            [Participant_ID |-> create_participant_id(Cell(rcols, rrows[r], REQUIRED_COL_NAME)),
             Start_Date |-> normalize_date(Cell(rcols, rrows[r], enrollment_cols[1])),
             End_Date |-> normalize_date(Cell(rcols, rrows[r], enrollment_cols[2])),
             End_Status |-> Cell(rcols, rrows[r], enrollment_cols[4]),
             Length_Days |-> Cell(rcols, rrows[r], enrollment_cols[3]),
             src |-> r]]
    IN  Pick(all, [r \in 1..Len(rrows) |->
                      ~isna(all[r].Participant_ID) /\ ~isna(all[r].Start_Date)])

load_participants_and_enrollment_result(roster, demo) ==
    IF ~roster.exists \/ ~demo.exists THEN Result("missing", <<>>)
    ELSE LET rcols == StripColumns(roster.columns)
             dcols == StripColumns(demo.columns)
         IN  IF ~HasCol(rcols, REQUIRED_COL_NAME) THEN Result("raised", <<>>)
             ELSE IF ~HasCol(dcols, REQUIRED_COL_NAME) THEN Result("raised", <<>>)
             ELSE IF \E i \in 1..Len(demo_cols) : ~HasCol(dcols, demo_cols[i])
             THEN Result("raised", <<>>)
             \* name_parts[1] is a KeyError when no name splits in two
             ELSE IF \A r \in 1..Len(roster.rows) :
                        \/ ~FirstOfKey(roster_pid(rcols, roster.rows))[r]
                        \/ Len(name_parts(Cell(rcols, roster.rows[r], REQUIRED_COL_NAME))) < 2
             THEN Result("raised", <<>>)
             ELSE LET p == Write("PARTICIPANT",
                                 participant_rows(rcols, roster.rows, dcols, demo.rows))
                  IN  IF \E i \in 1..Len(enrollment_cols) : ~HasCol(rcols, enrollment_cols[i])
                      THEN Result("raised", <<p>>)
                      ELSE Result("written",
                                  <<p, Write("MHC_ENROLLMENT", enrollment_rows(rcols, roster.rows))>>)

(***************************************************************************)
(* [3] load_criminal_charges                                               *)
(***************************************************************************)
\* the last column whose upper-cased name is `name` (the loop has no break)
last_exact_column(columns, name) ==
    LET hits == {i \in 1..Len(columns) : Upper(columns[i]) = name}
    IN  IF hits = {} THEN None ELSE columns[CHOOSE i \in hits : \A j \in hits : j <= i]

charge_date_column(columns) ==
    LET exact == {i \in 1..Len(columns) : Upper(columns[i]) = Chars("CHARGE DATE")}
        loose == {i \in 1..Len(columns) :
                    /\ Contains(Upper(columns[i]), Chars("CHARGE"))
                    /\ Contains(Upper(columns[i]), Chars("DATE"))
                    /\ ~Contains(Upper(columns[i]), Chars("MHC"))}
        first(S) == columns[CHOOSE i \in S : \A j \in S : i <= j]
    IN  IF exact # {} THEN first(exact)
        ELSE IF loose # {} THEN first(loose)
        ELSE None

\* exact match first, substring match as the fallback
exact_then_loose(columns, exact, loose) ==
    LET e == find_column_by_keywords(columns, exact, TRUE)
    IN  IF e # None THEN e ELSE find_column_by_keywords(columns, loose, FALSE)

first_name_column(columns) ==
    LET e == last_exact_column(columns, Chars("FIRST NAME"))
    IN  IF e # None THEN e ELSE find_column_by_keywords(columns, <<Chars("FIRST")>>, FALSE)

last_name_column(columns) ==
    LET e == last_exact_column(columns, Chars("LAST NAME"))
    IN  IF e # None THEN e ELSE find_column_by_keywords(columns, <<Chars("LAST")>>, FALSE)

offense_column(columns) == exact_then_loose(columns, <<Chars("OFFENSE")>>, <<Chars("OFFENSE")>>)
class_column(columns) == exact_then_loose(columns, <<Chars("CLASS")>>, <<Chars("CLASS")>>)

mhc_status_column(columns) ==
    exact_then_loose(columns, <<Chars("MHC STATUS")>>, <<Chars("MHC"), Chars("STATUS")>>)

outcome_column(columns) ==
    exact_then_loose(columns, <<Chars("NG/DISMISSED")>>, <<Chars("DISMISSED"), Chars("OUTCOME")>>)

\* the columns the extractor resolves, each None when it is not found
charge_columns(columns) ==
    [date |-> charge_date_column(columns),
     first |-> first_name_column(columns),
     last |-> last_name_column(columns),
     offense |-> offense_column(columns),
     class |-> class_column(columns),
     status |-> mhc_status_column(columns),
     outcome |-> outcome_column(columns)]

\* df_charges_data: the rows with a charge date, with their Participant_ID
charges_data(columns, rows, c) ==
    Pick([r \in 1..Len(rows) |->
            [row |-> rows[r],
             src |-> r,
             Participant_ID |-> create_participant_id(Str(
                 astype_str_strip(Cell(columns, rows[r], c.last)).s
                 \o Chars(", ") \o
                 astype_str_strip(Cell(columns, rows[r], c.first)).s))]],
         [r \in 1..Len(rows) |-> ~isna(Cell(columns, rows[r], c.date))])

\* DataFrame.drop_duplicates() with keep='first'
drop_duplicates(keys) == Pick(keys, FirstOfKey(keys))

\* df_charges_data[[offense_col, class_col]]
offense_pairs(columns, data, c) ==
    [i \in 1..Len(data) |->
        <<Cell(columns, data[i].row, c.offense), Cell(columns, data[i].row, c.class)>>]

\* df_offenses: the distinct (offense, class) pairs with their new columns.
\* okey and ckey are the frame's offense_col and class_col after the
\* assignments, which overwrite a source column named like a new one.
offenses(distinct, c) ==
    [i \in 1..Len(distinct) |->
        LET name == str_strip(distinct[i][1])
            class == str_upper(str_strip(distinct[i][2]))
        IN  [Offense_ID |-> i,
             Offense_Name |-> name,
             Class |-> class,
             okey |-> IF c.offense = Chars("Offense_Name") THEN name ELSE distinct[i][1],
             ckey |-> IF c.class = Chars("Class") THEN class ELSE distinct[i][2],
             raw |-> distinct[i]]]

charge_offense_rows(off) ==
    [i \in 1..Len(off) |->
        [Offense_ID |-> Num(off[i].Offense_ID), Offense_Name |-> off[i].Offense_Name,
         Class |-> off[i].Class, raw |-> off[i].raw]]

\* one PARTICIPANT_CHARGE row of the merged frame
participant_charge(columns, d, id, c) ==
    [Participant_ID |-> d.Participant_ID,
     Offense_ID |-> id,
     Charge_Date |-> normalize_date(Cell(columns, d.row, c.date)),
     Status_at_Charge |-> CellOrNaN(columns, d.row, c.status),
     Outcome |-> IF c.outcome = None THEN NaN
                 ELSE Str(Strip(ReplaceSub(astype_str(Cell(columns, d.row, c.outcome)).s,
                                           Chars("G/Convicted"), Chars("Convicted")))),
     src |-> d.src]

\* the rows pd.merge(..., how='left') makes of one row of df_charges_data
merge_left(columns, d, off, c) ==
    LET hit == [i \in 1..Len(off) |->
                   /\ off[i].okey = Cell(columns, d.row, c.offense)
                   /\ off[i].ckey = Cell(columns, d.row, c.class)]
    IN  IF \E i \in 1..Len(off) : hit[i]
        THEN Pick([i \in 1..Len(off) |->
                      participant_charge(columns, d, Num(off[i].Offense_ID), c)], hit)
        ELSE <<participant_charge(columns, d, NaN, c)>>

\* pd.merge(df_charges_data, df_offenses, on=[offense_col, class_col], how='left')
\* reshaped into the PARTICIPANT_CHARGE rows
participant_charge_rows(columns, data, off, c) ==
    Flatten([i \in 1..Len(data) |-> merge_left(columns, data[i], off, c)])

\* the two tables written from the rows that have a charge date
charge_writes(columns, data, c) ==
    <<Write("CHARGE_OFFENSE",
            charge_offense_rows(offenses(drop_duplicates(offense_pairs(columns, data, c)), c))),
      Write("PARTICIPANT_CHARGE",
            participant_charge_rows(
                columns, data, offenses(drop_duplicates(offense_pairs(columns, data, c)), c), c))>>

\* the extractor once the header is stripped and its columns are looked up
charges_result(columns, rows, c) ==
    IF c.date = None THEN Result("skipped", <<>>)
    ELSE IF c.first = None \/ c.last = None THEN Result("skipped", <<>>)
    ELSE IF c.offense = None \/ c.class = None THEN Result("skipped", <<>>)
    \* the .str accessor raises on a column that holds no text
    ELSE IF \/ ~IsObjectColumn(columns, rows, c.offense)
            \/ ~IsObjectColumn(columns, rows, c.class)
    THEN Result("raised", <<>>)
    ELSE Result("written", charge_writes(columns, charges_data(columns, rows, c), c))

load_criminal_charges_result(f) ==
    IF ~f.exists THEN Result("missing", <<>>)
    ELSE charges_result(StripColumns(f.columns), f.rows, charge_columns(StripColumns(f.columns)))

(***************************************************************************)
(* [4] - [8] the extractors keyed by a participant-name column             *)
(***************************************************************************)
PARTICIPANT_ID == Chars("Participant_ID")

\* find_column_by_keywords with the keywords given as strings
find(columns, keywords) ==
    find_column_by_keywords(columns, [i \in 1..Len(keywords) |-> Chars(keywords[i])], FALSE)

\* the date column normalised, or None for every row when it is unresolved
date_or_none(columns, row, c) ==
    IF c = None THEN NaN ELSE normalize_date(Cell(columns, row, c))

numeric_or_none(columns, row, c) ==
    IF c = None THEN NaN ELSE to_numeric(Cell(columns, row, c))

text_or_none(columns, row, c) ==
    IF c = None THEN NaN ELSE astype_str_strip(Cell(columns, row, c))

\* df[name_col].apply(create_participant_id), kept beside the source cells
with_participant_id(columns, rows, name_col) ==
    [r \in 1..Len(rows) |->
        [cells |-> rows[r], src |-> r,
         id |-> create_participant_id(Cell(columns, rows[r], name_col))]]

\* the view of a row in which the assigned Participant_ID column is a cell
IdCells(columns, row) ==
    IF HasCol(columns, PARTICIPANT_ID)
    THEN [row.cells EXCEPT ![ColIx(columns, PARTICIPANT_ID)] = row.id]
    ELSE Append(row.cells, row.id)

\* df.dropna(subset=['Participant_ID'])
dropna_participant_id(rows) ==
    Pick(rows, [r \in 1..Len(rows) |-> ~isna(rows[r].Participant_ID)])

\* df.dropna(subset=['Diagnosis_Code', 'Participant_ID'])
dropna_diagnosis(rows) ==
    Pick(rows, [r \in 1..Len(rows) |->
                   ~isna(rows[r].Diagnosis_Code) /\ ~isna(rows[r].Participant_ID)])

mental_health_rows(columns, rows) ==
    LET name_col == find(columns, <<"NAME", "PARTICIPANT">>)
        cols == WithColumn(columns, PARTICIPANT_ID)
        df == with_participant_id(columns, rows, name_col)
        diag_code_col == find(cols, <<"DIAGNOSIS", "CODE", "DX">>)
        diag_desc_col == find(cols, <<"DIAGNOSIS", "DESCRIPTION", "CONDITION">>)
        date_col == find(cols, <<"DATE", "ASSESSMENT", "ENTRY">>)
    IN  dropna_diagnosis([r \in 1..Len(rows) |->
            LET cells == IdCells(columns, df[r])
            IN  [Participant_ID |-> df[r].id,
                 Diagnosis_Code |-> astype_str_strip(Cell(cols, cells, diag_code_col)),
                 Diagnosis_Description |-> text_or_none(cols, cells, diag_desc_col),
                 Assessment_Date |-> date_or_none(cols, cells, date_col),
                 src |-> r]])

load_mental_health_data_result(f) ==
    IF ~f.exists THEN Result("missing", <<>>)
    ELSE LET columns == StripColumns(f.columns)
         IN  IF find(columns, <<"NAME", "PARTICIPANT">>) = None THEN Result("skipped", <<>>)
             ELSE IF find(WithColumn(columns, PARTICIPANT_ID), <<"DIAGNOSIS", "CODE", "DX">>) = None
             THEN Result("skipped", <<>>)
             ELSE Result("written",
                         <<Write("PARTICIPANT_DIAGNOSIS", mental_health_rows(columns, f.rows))>>)

risk_rows(columns, rows) ==
    LET name_col == find(columns, <<"NAME", "PARTICIPANT">>)
        cols == WithColumn(columns, PARTICIPANT_ID)
        df == with_participant_id(columns, rows, name_col)
        date_col == find(cols, <<"DATE", "ASSESSMENT">>)
        score_col == find(cols, <<"SCORE", "LS/CMI", "LS CMI", "RISK">>)
        category_col == find(cols, <<"CATEGORY", "LEVEL", "RISK LEVEL">>)
    IN  dropna_participant_id([r \in 1..Len(rows) |->
            LET cells == IdCells(columns, df[r])
            IN  [Participant_ID |-> df[r].id,
                 Assessment_Date |-> date_or_none(cols, cells, date_col),
                 Risk_Score |-> numeric_or_none(cols, cells, score_col),
                 Risk_Category |-> text_or_none(cols, cells, category_col),
                 src |-> r]])

\* the risk extractor, had it raised for an unresolved name column
load_risk_assessments_raising(f) ==
    IF ~f.exists THEN Result("missing", <<>>)
    ELSE LET columns == StripColumns(f.columns)
         IN  IF find(columns, <<"NAME", "PARTICIPANT">>) = None THEN Result("raised", <<>>)
             ELSE Result("written", <<Write("RISK_ASSESSMENT", risk_rows(columns, f.rows))>>)

load_risk_assessments_result(f) ==
    IF ~f.exists THEN Result("missing", <<>>)
    ELSE LET columns == StripColumns(f.columns)
         IN  IF find(columns, <<"NAME", "PARTICIPANT">>) = None THEN Result("skipped", <<>>)
             ELSE Result("written", <<Write("RISK_ASSESSMENT", risk_rows(columns, f.rows))>>)

\* df_jail_clean before the days are derived
jail_clean(columns, rows) ==
    LET name_col == find(columns, <<"NAME", "PARTICIPANT">>)
        cols == WithColumn(columns, PARTICIPANT_ID)
        df == with_participant_id(columns, rows, name_col)
        start_date_col == find(cols, <<"START", "BEGIN", "ADMISSION", "FROM">>)
        end_date_col == find(cols, <<"END", "RELEASE", "TO", "DISCHARGE">>)
        days_col == find(cols, <<"DAYS", "LENGTH", "DURATION">>)
        cost_col == find(cols, <<"COST", "AMOUNT", "FEE", "CHARGE">>)
    IN  [r \in 1..Len(rows) |->
            LET cells == IdCells(columns, df[r])
            IN  [Participant_ID |-> df[r].id,
                 Start_Date |-> date_or_none(cols, cells, start_date_col),
                 End_Date |-> date_or_none(cols, cells, end_date_col),
                 Days_Incarcerated |-> numeric_or_none(cols, cells, days_col),
                 Cost |-> numeric_or_none(cols, cells, cost_col),
                 src |-> r]]

\* if df_jail_clean['Days_Incarcerated'].isna().all(): derive the days of
\* every row from its dates
derive_days(clean) ==
    IF \A r \in 1..Len(clean) : isna(clean[r].Days_Incarcerated)
    THEN [r \in 1..Len(clean) |->
            [clean[r] EXCEPT !.Days_Incarcerated =
                days_between(to_datetime(clean[r].Start_Date), to_datetime(clean[r].End_Date))]]
    ELSE clean

jail_rows(columns, rows) == dropna_participant_id(derive_days(jail_clean(columns, rows)))

\* the jail extractor, had it let FileNotFoundError out
load_jail_data_unguarded(f) ==
    IF ~f.exists THEN Result("raised", <<>>)
    ELSE LET columns == StripColumns(f.columns)
         IN  IF find(columns, <<"NAME", "PARTICIPANT">>) = None THEN Result("skipped", <<>>)
             ELSE Result("written", <<Write("JAIL_DATA", jail_rows(columns, f.rows))>>)

load_jail_data_result(f) ==
    IF ~f.exists THEN Result("missing", <<>>)
    ELSE LET columns == StripColumns(f.columns)
         IN  IF find(columns, <<"NAME", "PARTICIPANT">>) = None THEN Result("skipped", <<>>)
             ELSE Result("written", <<Write("JAIL_DATA", jail_rows(columns, f.rows))>>)

treatment_files == <<Chars("MHC_Treatment_MH_FY23.csv"), Chars("MHC_Treatment_MH_FY24.csv"),
                     Chars("MHC_Treatment_MH_FY25.csv"), Chars("MHC_Treatment_CD_FY23.csv"),
                     Chars("MHC_Treatment_CD_FY24.csv"), Chars("MHC_Treatment_CD_FY25.csv"),
                     Chars("MHC_Treatment_Historical.csv")>>

\* the Treatment_Type given to every row of one file
treatment_type(file) ==
    IF Contains(file, Chars("MH")) THEN Chars("Mental Health")
    ELSE IF Contains(file, Chars("CD")) THEN Chars("Chemical Dependency")
    ELSE Chars("Unknown")

\* is the file read and appended to all_treatments
treatment_processed(f) ==
    f.exists /\ find(StripColumns(f.columns), <<"NAME", "PARTICIPANT", "CLIENT">>) # None

\* df_treatment_selected for the file treatment_files[n] with the stripped header
treatment_selected(n, columns, rows) ==
    LET name_col == find(columns, <<"NAME", "PARTICIPANT", "CLIENT">>)
        cols == WithColumn(columns, PARTICIPANT_ID)
        df == with_participant_id(columns, rows, name_col)
        start_date_col == find(cols, <<"START", "BEGIN", "ADMISSION", "DATE">>)
        end_date_col == find(cols, <<"END", "COMPLETION", "DISCHARGE">>)
        type_col == find(cols, <<"TYPE", "SERVICE", "TREATMENT", "MODALITY">>)
        provider_col == find(cols, <<"PROVIDER", "FACILITY", "AGENCY">>)
        outcome_col == find(cols, <<"OUTCOME", "RESULT", "STATUS", "COMPLETION">>)
    IN  dropna_participant_id([r \in 1..Len(rows) |->
            LET cells == IdCells(columns, df[r])
            IN  [Participant_ID |-> df[r].id,
                 Treatment_Type |-> Str(treatment_type(treatment_files[n])),
                 Start_Date |-> date_or_none(cols, cells, start_date_col),
                 End_Date |-> date_or_none(cols, cells, end_date_col),
                 Service_Type |-> text_or_none(cols, cells, type_col),
                 Provider |-> text_or_none(cols, cells, provider_col),
                 Outcome |-> text_or_none(cols, cells, outcome_col),
                 src |-> <<n, r>>]])

treatment_rows(n, f) == treatment_selected(n, StripColumns(f.columns), f.rows)

\* all_treatments after the loop over treatment_files, files[n] being the
\* file found under the name treatment_files[n]
all_treatments(files) ==
    Pick([n \in 1..Len(treatment_files) |->
             IF treatment_processed(files[n]) THEN treatment_rows(n, files[n]) ELSE <<>>],
         [n \in 1..Len(treatment_files) |-> treatment_processed(files[n])])

load_treatment_episodes_result(files) ==
    IF all_treatments(files) # <<>>
    THEN Result("written", <<Write("TREATMENT_EPISODE", Flatten(all_treatments(files)))>>)
    ELSE IF \A n \in 1..Len(treatment_files) : ~files[n].exists
    THEN Result("missing", <<>>)
    ELSE Result("skipped", <<>>)

PsychOtherColumns == 10

\* s[:n]
head(s, n) == SubSeq(s, 1, IF Len(s) < n THEN Len(s) ELSE n)

\* other_cols: the first columns that are neither the key, the name nor a
\* date column
psychosocial_other_cols(clean_cols, name_col, date_col) ==
    head(Pick(clean_cols,
              [i \in 1..Len(clean_cols) |->
                  /\ clean_cols[i] \notin {PARTICIPANT_ID, Chars("Assessment_Date"), name_col}
                  /\ clean_cols[i] # date_col]),
         PsychOtherColumns)

\* df_clean[other_cols] at one row
other_cells(cols, cells, other_cols) ==
    [i \in 1..Len(other_cols) |-> Cell(cols, cells, other_cols[i])]

psychosocial_rows(columns, rows) ==
    LET name_col == find(columns, <<"NAME", "PARTICIPANT", "CLIENT">>)
        cols == WithColumn(columns, PARTICIPANT_ID)
        df == with_participant_id(columns, rows, name_col)
        date_col == find(cols, <<"DATE", "ASSESSMENT", "COMPLETED">>)
        clean_cols == WithColumn(cols, Chars("Assessment_Date"))
    IN  dropna_participant_id([r \in 1..Len(rows) |->
            LET cells == IdCells(columns, df[r])
            IN  [Participant_ID |-> df[r].id,
                 Assessment_Date |-> date_or_none(cols, cells, date_col),
                 other |-> other_cells(cols, cells,
                                       psychosocial_other_cols(clean_cols, name_col, date_col)),
                 src |-> r]])

load_psychosocial_assessments_result(f) ==
    IF ~f.exists THEN Result("missing", <<>>)
    ELSE LET columns == StripColumns(f.columns)
         IN  IF find(columns, <<"NAME", "PARTICIPANT", "CLIENT">>) = None
             THEN Result("skipped", <<>>)
             ELSE Result("written",
                         <<Write("PSYCHOSOCIAL_ASSESSMENT", psychosocial_rows(columns, f.rows))>>)

(***************************************************************************)
(* The files a run may find.  Every source has a complete file of at most  *)
(* MaxRows rows, the same file with one column taken away, and no file.    *)
(***************************************************************************)
MaxRows == 2
MaxPresent == 2

Prefix(pool) == SubSeq(pool, 1, IF Len(pool) < MaxRows THEN Len(pool) ELSE MaxRows)

\* the elements of S, enumerated once
Listed(S) == {x : x \in S}

T(s) == Str(Chars(s))
Header(names) == [i \in 1..Len(names) |-> Chars(names[i])]

\* the file f without the column named c
DropColumn(f, c) ==
    LET keep == [i \in 1..Len(f.columns) |-> f.columns[i] # Chars(c)]
    IN  File(Pick(f.columns, keep), [r \in 1..Len(f.rows) |-> Pick(f.rows[r], keep)])

\* the file f with column c emptied
BlankColumn(f, c) ==
    File(f.columns,
         [r \in 1..Len(f.rows) |->
             [i \in 1..Len(f.columns) |-> IF f.columns[i] = Chars(c) THEN NaN ELSE f.rows[r][i]]])

DiagnosisFile ==
    File(<<>>,
         <<<<T("Code"), T("Description"), NaN, NaN, T("Code"), T("Description")>>>> \o
         Prefix(<<<<T("F20.0"), T("Schizophrenia"), NaN, NaN, T("F31.9 "), T("Bipolar")>>,
                  <<T("F31.9"), T("Bipolar disorder"), NaN, NaN, T("F20.0"), T("Paranoid")>>,
                  <<NaN, NaN, NaN, NaN, T("F41.1"), NaN>>>>))

DiagnosisNarrowFile ==
    File(<<>>, <<<<T("Code"), T("Description")>>, <<T("F20.0"), T("Schizophrenia")>>>>)

DiagnosisFiles == {Missing, DiagnosisFile, DiagnosisNarrowFile}

RosterFile ==
    File(Header(<<"Participant Name", "Date Started MHC", "Date Ended MHC",
                  "Length of MHC", "End Status">>),
         Prefix(<<<<T("Smith, John"), T("2023-01-10"), T("2023-07-09"), Num(180), T("Graduated")>>,
                  <<T("Doe, Jane"), T("pending"), NaN, NaN, NaN>>,
                  <<NaN, T("2024-02-01"), T("TBD"), NaN, T("Active")>>>>))

\* a roster of enrollments that have not ended
RosterOpenFile ==
    File(Header(<<"Participant Name", "Date Started MHC", "Date Ended MHC",
                  "Length of MHC", "End Status">>),
         Prefix(<<<<T("Smith, John"), T("2023-01-10"), T("TBD"), NaN, T("Active")>>,
                  <<T("Doe, Jane"), NaN, T("2023-07-09"), NaN, NaN>>,
                  <<T("Roe, Rid"), T("2024-02-01"), NaN, NaN, NaN>>>>))

RosterFiles ==
    {Missing, RosterFile, RosterOpenFile, DropColumn(RosterFile, "Participant Name"),
     DropColumn(RosterFile, "Date Started MHC")}

DemographicsFile ==
    File(Header(<<"Participant Name", "DOB", "Gender", "Race: White", "Race: Black",
                  "Race: Native American", "Race: Asian", "Race: Other">>),
         Prefix(<<<<T("SMITH, JOHN"), T("1980-05-17"), T("M"), Num(1), Num(0), Num(0), Num(0), Num(0)>>,
                  <<T("Doe, Jane"), T("unknown"), T("F"), Num(1), Num(0), Num(0), Num(1), Num(0)>>,
                  <<T("Roe, Rid"), NaN, NaN, NaN, NaN, NaN, NaN, NaN>>>>))

DemographicsFiles == {Missing, DemographicsFile}

ChargesFile ==
    File(Header(<<"First Name", "Last Name", "Charge Date", "Offense", "Class",
                  "MHC Status", "NG/Dismissed">>),
         Prefix(<<<<T("John"), T("Smith"), T("2022-03-04"), T("Theft "), T("m"), T("Pre"), T("G/Convicted")>>,
                  <<NaN, NaN, T("2022-05-06"), T("Theft "), T("m"), T("Post"), NaN>>,
                  <<T("Jane"), T("Doe"), NaN, T("Assault"), T("F"), NaN, NaN>>>>))

\* charges whose class is written in both cases
ChargesMixedCaseFile ==
    File(Header(<<"First Name", "Last Name", "Charge Date", "Offense", "Class",
                  "MHC Status", "NG/Dismissed">>),
         Prefix(<<<<T("John"), T("Smith"), T("2022-03-04"), T("Theft"), T("M"), T("Pre"), T("G/Convicted")>>,
                  <<T("Jane"), T("Doe"), T("2022-05-06"), T("Theft"), T("m"), T("Post"), NaN>>,
                  <<T("Rid"), T("Roe"), T("2022-07-08"), T("Theft"), T("M"), NaN, NaN>>>>))

ChargesFiles ==
    {Missing, ChargesFile, ChargesMixedCaseFile, BlankColumn(ChargesFile, "Offense")} \cup
    {DropColumn(ChargesFile, c) :
        c \in {"First Name", "Last Name", "Charge Date", "Offense", "Class"}}

MentalHealthFile ==
    File(Header(<<"Participant Name", "Diagnosis Code", "Description", "Entry Date">>),
         Prefix(<<<<T("Smith, John"), T("F20.0"), T("Schizophrenia"), T("2023-01-05")>>,
                  <<T("Doe, Jane"), NaN, NaN, T("2023-02-30")>>,
                  <<NaN, T("F31.9"), NaN, NaN>>>>))

MentalHealthFiles ==
    {Missing, MentalHealthFile, DropColumn(MentalHealthFile, "Participant Name"),
     DropColumn(MentalHealthFile, "Diagnosis Code")}

RiskFile ==
    File(Header(<<"Participant Name", "Assessment Date", "LS/CMI Score", "Risk Level">>),
         Prefix(<<<<T("Smith, John"), T("2023-01-06"), Num(27), T("High")>>,
                  <<NaN, T("2023-01-07"), NaN, NaN>>,
                  <<T("Doe, Jane"), NaN, Num(12), T("Low")>>>>))

RiskFiles == {Missing, RiskFile, DropColumn(RiskFile, "Participant Name")}

JailFile ==
    File(Header(<<"Participant Name", "Booking Start", "Release", "Days", "Cost">>),
         Prefix(<<<<T("Smith, John"), T("2023-03-01"), T("2023-03-11"), Num(10), Num(950)>>,
                  <<T("Doe, Jane"), T("2024-02-27"), T("2024-03-02"), NaN, NaN>>,
                  <<NaN, T("2024-05-09"), T("2024-05-01"), NaN, NaN>>>>))

JailFiles ==
    {Missing, JailFile, DropColumn(JailFile, "Participant Name"), DropColumn(JailFile, "Days")}

TreatmentFile ==
    File(Header(<<"Client Name", "Start Date", "End Date", "Service Type", "Provider", "Status">>),
         Prefix(<<<<T("Smith, John"), T("2023-04-01"), T("2023-06-30"), T("Outpatient"), T("CMH"), T("Completed")>>,
                  <<NaN, T("2023-05-01"), NaN, NaN, NaN, NaN>>,
                  <<T("Doe, Jane"), T("n/a"), NaN, T("Detox"), NaN, NaN>>>>))

\* what may lie under one treatment file name
TreatmentFilesOne == {Missing, TreatmentFile, DropColumn(TreatmentFile, "Client Name")}

\* the names under which the runs of the model may find a treatment file:
\* one MH-tagged, one CD-tagged and the untagged one
TreatmentNamePool == {n \in 1..Len(treatment_files) :
                        treatment_files[n] \in {Chars("MHC_Treatment_MH_FY23.csv"),
                                                Chars("MHC_Treatment_CD_FY24.csv"),
                                                Chars("MHC_Treatment_Historical.csv")}}

\* the treatment files of a run: at most MaxPresent of the names exist
TreatmentFileSets ==
    Listed({fs \in [1..Len(treatment_files) -> TreatmentFilesOne] :
              /\ \A n \in 1..Len(treatment_files) : fs[n].exists => n \in TreatmentNamePool
              /\ Cardinality({n \in 1..Len(treatment_files) : fs[n].exists}) <= MaxPresent})

PsychosocialFile ==
    File(Header(<<"Client Name", "Date Completed", "Housing", "Employment">>),
         Prefix(<<<<T("Smith, John"), T("2023-01-08"), T("Stable"), T("None")>>,
                  <<NaN, T("2023-01-09"), T("Homeless"), NaN>>,
                  <<T("Doe, Jane"), NaN, NaN, T("Part-time")>>>>))

PsychosocialFiles == {Missing, PsychosocialFile, DropColumn(PsychosocialFile, "Client Name")}

\* what create_schema may find under SCHEMA_FILE
SchemaScripts == {"missing", "failing", "create_if_absent", "drop_and_create"}

(***************************************************************************)
(* The store and the run.                                                  *)
(*                                                                         *)
(* db is what the file MHC_Project.db holds and txn what the connection    *)
(* sees (db and its uncommitted changes).  gen tells which run wrote a     *)
(* table last: "none", "earlier" (a run before this one) or "latest".      *)
(***************************************************************************)
VARIABLES
    pc,             \* the statement of load_data that runs next
    db,             \* the committed contents of the store file
    txn,            \* the contents as seen through conn
    pre,            \* db when this run connected
    last,           \* the step taken last: its stage, what it read, how it ended
    ran,            \* the extractors called so far in this run
    rosterSeen,     \* what this run found of the roster file, "unread" before
    result          \* "none", "committed" or "rolled_back", then closed

vars == <<pc, db, txn, pre, last, ran, rosterSeen, result>>

Tables == {"DIAGNOSIS_CODE", "PARTICIPANT", "MHC_ENROLLMENT", "CHARGE_OFFENSE",
           "PARTICIPANT_CHARGE", "PARTICIPANT_DIAGNOSIS", "RISK_ASSESSMENT", "JAIL_DATA",
           "TREATMENT_EPISODE", "PSYCHOSOCIAL_ASSESSMENT"}

EmptyTable == [gen |-> "none", rows |-> <<>>]
EmptyStore == [t \in Tables |-> EmptyTable]

\* DataFrame.to_sql(table, conn, if_exists='replace'): the table is dropped,
\* created again and filled; pandas commits conn when it has created the
\* table and again when it has inserted the rows, so the connection holds
\* no open transaction when to_sql returns.
to_sql(c, w) ==
    LET replaced == [c.txn EXCEPT ![w.table] = [gen |-> "latest", rows |-> w.rows]]
    IN  [db |-> replaced, txn |-> replaced]

RECURSIVE to_sql_all(_, _)
to_sql_all(c, writes) ==
    IF writes = <<>> THEN c ELSE to_sql_all(to_sql(c, Head(writes)), Tail(writes))

\* conn.executescript(sql_script): commits and runs the script outside any
\* transaction.  A script that drops and creates the tables empties them.
executescript(c, script) ==
    IF script = "drop_and_create"
    THEN [db |-> EmptyStore, txn |-> EmptyStore]
    ELSE [db |-> c.txn, txn |-> c.txn]

\* every extractor applied to every file of the model, tabulated
DiagnosisResults == [f \in DiagnosisFiles |-> load_diagnosis_codes_result(f)]
RosterResults ==
    [p \in RosterFiles \X DemographicsFiles |->
        load_participants_and_enrollment_result(p[1], p[2])]
ChargesResults == [f \in ChargesFiles |-> load_criminal_charges_result(f)]
MentalHealthResults == [f \in MentalHealthFiles |-> load_mental_health_data_result(f)]
RiskResults == [f \in RiskFiles |-> load_risk_assessments_result(f)]
JailResults == [f \in JailFiles |-> load_jail_data_result(f)]
TreatmentResults == [files \in TreatmentFileSets |-> load_treatment_episodes_result(files)]
PsychosocialResults == [f \in PsychosocialFiles |-> load_psychosocial_assessments_result(f)]

\* the tables of a store marked as written by an earlier run
Aged(store) ==
    [t \in Tables |->
        [gen |-> IF store[t].gen = "none" THEN "none" ELSE "earlier", rows |-> store[t].rows]]

\* the store an earlier, complete run over the full files left behind
EarlierStore ==
    Aged(to_sql_all([db |-> EmptyStore, txn |-> EmptyStore],
            DiagnosisResults[DiagnosisFile].writes \o
            RosterResults[<<RosterFile, DemographicsFile>>].writes \o
            ChargesResults[ChargesFile].writes \o
            MentalHealthResults[MentalHealthFile].writes \o
            RiskResults[RiskFile].writes \o
            JailResults[JailFile].writes \o
            TreatmentResults[[n \in 1..Len(treatment_files) |->
                                 IF n = 1 THEN TreatmentFile ELSE Missing]].writes \o
            PsychosocialResults[PsychosocialFile].writes).db)

PriorStores == {EmptyStore, EarlierStore}

Step(stage, read, outcome) == [stage |-> stage, read |-> read, outcome |-> outcome]

Init ==
    /\ pc = "connect"
    /\ db \in PriorStores
    /\ txn = db
    /\ pre = db
    /\ last = Step("none", <<>>, "none")
    /\ ran = <<>>
    /\ rosterSeen = "unread"
    /\ result = "none"

\* conn = sqlite3.connect(DB_NAME)
connect ==
    /\ pc = "connect"
    /\ pc' = "create_schema"
    /\ pre' = db
    /\ txn' = db
    /\ UNCHANGED <<db, last, ran, rosterSeen, result>>

\* create_schema(conn, SCHEMA_FILE): no failure leaves the function
create_schema ==
    /\ pc = "create_schema"
    /\ \E script \in SchemaScripts :
        LET c == IF script \in {"missing", "failing"}
                 THEN [db |-> db, txn |-> txn]
                 ELSE executescript([db |-> db, txn |-> txn], script)
        IN  /\ db' = c.db
            /\ txn' = c.txn
            /\ last' = Step("create_schema", script,
                            IF script \in {"missing", "failing"} THEN script ELSE "written")
    /\ pc' = "load_diagnosis_codes"
    /\ UNCHANGED <<pre, ran, rosterSeen, result>>

\* one extractor called from load_data: its writes reach the store, and
\* control goes to the next call, or to the except clause when it raises
Extract(stage, read, res, next) ==
    LET c == to_sql_all([db |-> db, txn |-> txn], res.writes)
    IN  /\ pc = stage
        /\ db' = c.db
        /\ txn' = c.txn
        /\ last' = Step(stage, read, res.outcome)
        /\ ran' = Append(ran, stage)
        /\ pc' = IF res.outcome = "raised" THEN "except" ELSE next
        /\ UNCHANGED <<pre, result>>

load_diagnosis_codes ==
    \E f \in DiagnosisFiles :
        /\ Extract("load_diagnosis_codes", f, DiagnosisResults[f],
                   "load_participants_and_enrollment")
        /\ UNCHANGED rosterSeen

load_participants_and_enrollment ==
    \E roster \in RosterFiles, demo \in DemographicsFiles :
        /\ Extract("load_participants_and_enrollment", <<roster, demo>>,
                   RosterResults[<<roster, demo>>],
                   "load_criminal_charges")
        /\ rosterSeen' = IF ~roster.exists THEN "missing"
                         ELSE IF ~HasCol(StripColumns(roster.columns), REQUIRED_COL_NAME)
                         THEN "no_name_column"
                         ELSE "read"

load_criminal_charges ==
    \E f \in ChargesFiles :
        /\ Extract("load_criminal_charges", f, ChargesResults[f],
                   "load_mental_health_data")
        /\ UNCHANGED rosterSeen

load_mental_health_data ==
    \E f \in MentalHealthFiles :
        /\ Extract("load_mental_health_data", f, MentalHealthResults[f],
                   "load_risk_assessments")
        /\ UNCHANGED rosterSeen

load_risk_assessments ==
    \E f \in RiskFiles :
        /\ Extract("load_risk_assessments", f, RiskResults[f],
                   "load_jail_data")
        /\ UNCHANGED rosterSeen

load_jail_data ==
    \E f \in JailFiles :
        /\ Extract("load_jail_data", f, JailResults[f], "load_treatment_episodes")
        /\ UNCHANGED rosterSeen

load_treatment_episodes ==
    \E files \in TreatmentFileSets :
        /\ Extract("load_treatment_episodes", files, TreatmentResults[files],
                   "load_psychosocial_assessments")
        /\ UNCHANGED rosterSeen

load_psychosocial_assessments ==
    \E f \in PsychosocialFiles :
        /\ Extract("load_psychosocial_assessments", f,
                   PsychosocialResults[f], "commit")
        /\ UNCHANGED rosterSeen

\* conn.commit()
commit ==
    /\ pc = "commit"
    /\ db' = txn
    /\ result' = "committed"
    /\ pc' = "close"
    /\ UNCHANGED <<txn, pre, last, ran, rosterSeen>>

\* except Exception: conn.rollback()
rollback ==
    /\ pc = "except"
    /\ txn' = db
    /\ result' = "rolled_back"
    /\ pc' = "close"
    /\ UNCHANGED <<db, pre, last, ran, rosterSeen>>

\* finally: conn.close()
close ==
    /\ pc = "close"
    /\ pc' = "closed"
    /\ UNCHANGED <<db, txn, pre, last, ran, rosterSeen, result>>

Next ==
    \/ connect
    \/ create_schema
    \/ load_diagnosis_codes
    \/ load_participants_and_enrollment
    \/ load_criminal_charges
    \/ load_mental_health_data
    \/ load_risk_assessments
    \/ load_jail_data
    \/ load_treatment_episodes
    \/ load_psychosocial_assessments
    \/ commit
    \/ rollback
    \/ close

Spec == Init /\ [][Next]_vars

TypeOK ==
    /\ pc \in {"connect", "create_schema", "load_diagnosis_codes",
               "load_participants_and_enrollment", "load_criminal_charges",
               "load_mental_health_data", "load_risk_assessments", "load_jail_data",
               "load_treatment_episodes", "load_psychosocial_assessments",
               "commit", "except", "close", "closed"}
    /\ DOMAIN db = Tables
    /\ result \in {"none", "committed", "rolled_back"}

(***************************************************************************)
(* The two helper functions called on their own.  A call takes its         *)
(* arguments from last.read and leaves what it returned in last.outcome;   *)
(* the store plays no part.                                                *)
(***************************************************************************)
MaxHeaders == 2
MaxKeywords == 2
MaxNameLen == 3

\* the sequences over S of at most n elements
SeqsUpTo(S, n) == UNION {[1..k -> S] : k \in 0..n}

HeaderPool == {Chars("Charge Date"), Chars("MHC Status"), Chars("Date"), Chars("X"), Chars("Y")}
KeywordPool == {Chars("CHARGE DATE"), Chars("DATE"), Chars("status"), Chars("Z")}

\* read_csv leaves no two columns of a frame with the same name
HeaderLists ==
    {h \in SeqsUpTo(HeaderPool, MaxHeaders) :
        \A i \in 1..Len(h) : \A j \in 1..Len(h) : h[i] = h[j] => i = j}

FindArgs ==
    Listed({[fn |-> "find_column_by_keywords", columns |-> h, keywords |-> k, exact_match |-> e] :
              h \in HeaderLists, k \in SeqsUpTo(KeywordPool, MaxKeywords), e \in BOOLEAN})

NameAlphabet == {"A", "a", " ", ",", ".", "/", "\t"}

Names ==
    {NaN, Num(123), T("Smith, John"), T("Jane Doe"), T("JANE DOE")} \cup
    {Str(t) : t \in SeqsUpTo(NameAlphabet, MaxNameLen)}

NameArgs == Listed({[fn |-> "create_participant_id", name |-> n] : n \in Names})

HelperInit ==
    /\ pc = "call"
    /\ last \in {Step("none", a, "none") : a \in FindArgs \cup NameArgs}
    /\ db = EmptyStore
    /\ txn = db
    /\ pre = db
    /\ ran = <<>>
    /\ rosterSeen = "unread"
    /\ result = "none"

call_find_column_by_keywords ==
    /\ pc = "call"
    /\ last.read.fn = "find_column_by_keywords"
    /\ last' = Step("find_column_by_keywords", last.read,
                    find_column_by_keywords(last.read.columns, last.read.keywords,
                                            last.read.exact_match))
    /\ pc' = "returned"
    /\ UNCHANGED <<db, txn, pre, ran, rosterSeen, result>>

call_create_participant_id ==
    /\ pc = "call"
    /\ last.read.fn = "create_participant_id"
    /\ last' = Step("create_participant_id", last.read, create_participant_id(last.read.name))
    /\ pc' = "returned"
    /\ UNCHANGED <<db, txn, pre, ran, rosterSeen, result>>

HelperNext ==
    \/ call_find_column_by_keywords
    \/ call_create_participant_id

HelperSpec == HelperInit /\ [][HelperNext]_vars

(***************************************************************************)
(* The run as load_data lays it out.                                       *)
(***************************************************************************)
\* the extractors in the order load_data calls them
Extractors == <<"load_diagnosis_codes", "load_participants_and_enrollment",
                "load_criminal_charges", "load_mental_health_data",
                "load_risk_assessments", "load_jail_data",
                "load_treatment_episodes", "load_psychosocial_assessments">>

\* the statement that follows extractor number i when it returns
Following(i) == IF i < Len(Extractors) THEN Extractors[i + 1] ELSE "commit"

\* the tables each extractor writes with to_sql
TablesOf ==
    [stage \in {Extractors[i] : i \in 1..Len(Extractors)} |->
        CASE stage = "load_diagnosis_codes" -> {"DIAGNOSIS_CODE"}
          [] stage = "load_participants_and_enrollment" -> {"PARTICIPANT", "MHC_ENROLLMENT"}
          [] stage = "load_criminal_charges" -> {"CHARGE_OFFENSE", "PARTICIPANT_CHARGE"}
          [] stage = "load_mental_health_data" -> {"PARTICIPANT_DIAGNOSIS"}
          [] stage = "load_risk_assessments" -> {"RISK_ASSESSMENT"}
          [] stage = "load_jail_data" -> {"JAIL_DATA"}
          [] stage = "load_treatment_episodes" -> {"TREATMENT_EPISODE"}
          [] stage = "load_psychosocial_assessments" -> {"PSYCHOSOCIAL_ASSESSMENT"}]

\* the run has left the try block through the except clause
Failing == pc = "except" \/ (pc \in {"close", "closed"} /\ result = "rolled_back")

\* the rows of a table as a set
RowsOf(table) == {db[table].rows[i] : i \in 1..Len(db[table].rows)}

(***************************************************************************)
(* C1.  The run is all-or-nothing: when it is over the store holds either  *)
(* the complete new dataset (every table written by this run) or exactly   *)
(* the contents it had before the run, never a mixture of the two.         *)
(***************************************************************************)
C1_AllOrNothing ==
    pc = "closed" =>
        \/ db = pre
        \/ \A t \in Tables : db[t].gen = "latest"

(***************************************************************************)
(* C2.  After a run that commits, every table holds only rows produced by  *)
(* that run: no table still holds the rows an earlier run wrote.           *)
(***************************************************************************)
C2_OnlyLatestRows ==
    (pc = "closed" /\ result = "committed") =>
        \A t \in Tables : db[t].gen # "earlier"

(***************************************************************************)
(* C3.  A missing roster file is fatal: once the roster extractor has      *)
(* found no roster file, no later extractor is called and the run ends     *)
(* rolled back, not committed.                                             *)
(***************************************************************************)
C3_MissingRosterIsFatal ==
    rosterSeen = "missing" =>
        /\ Failing
        /\ ran[Len(ran)] = "load_participants_and_enrollment"

(***************************************************************************)
(* C4.  A roster file without the 'Participant Name' column fails the run: *)
(* the roster extractor raises, no later extractor is called, and the run  *)
(* rolls back instead of committing.                                       *)
(***************************************************************************)
C4_RosterWithoutNameColumnFails ==
    rosterSeen = "no_name_column" =>
        /\ Failing
        /\ ran[Len(ran)] = "load_participants_and_enrollment"
        /\ last.outcome = "raised"

\* the extractors that read one file and are not the roster extractor
SingleFile == {"load_diagnosis_codes", "load_criminal_charges", "load_mental_health_data",
               "load_risk_assessments", "load_jail_data", "load_psychosocial_assessments"}

\* the complete file of each of them
CompleteFile ==
    [stage \in SingleFile |->
        CASE stage = "load_diagnosis_codes" -> DiagnosisFile
          [] stage = "load_criminal_charges" -> ChargesFile
          [] stage = "load_mental_health_data" -> MentalHealthFile
          [] stage = "load_risk_assessments" -> RiskFile
          [] stage = "load_jail_data" -> JailFile
          [] stage = "load_psychosocial_assessments" -> PsychosocialFile]

\* the treatment files of a run that are read and appended
Processed(files) == {n \in 1..Len(treatment_files) : treatment_processed(files[n])}

\* the extractor at pc takes its step
Runs(stage) == pc = stage /\ pc' # stage

(***************************************************************************)
(* C5.  A missing file of a non-roster source skips only that source.  The *)
(* step of a single-file extractor that finds no file leaves the store as  *)
(* it is and hands over to the next statement of the sequence; a missing   *)
(* treatment file contributes no row while the other treatment files are   *)
(* processed; no extractor touches the tables of another source, a         *)
(* complete file is written to its tables; and the statement after the     *)
(* last extractor is the commit.                                           *)
(***************************************************************************)
C5_Step ==
    /\ \A i \in 1..Len(Extractors) :
        LET stage == Extractors[i]
        IN  Runs(stage) =>
              /\ \A t \in Tables \ TablesOf[stage] : db'[t] = db[t]
              /\ stage \in SingleFile =>
                  /\ ~last'.read.exists => (db' = db /\ pc' = Following(i))
                  /\ last'.read = CompleteFile[stage] =>
                        \A t \in TablesOf[stage] :
                            db'[t].gen = "latest" /\ db'[t].rows # <<>>
              /\ stage = "load_treatment_episodes" =>
                  /\ pc' = Following(i)
                  /\ (\A n \in 1..Len(treatment_files) : ~last'.read[n].exists) => db' = db
                  /\ \A n \in 1..Len(treatment_files) :
                        last'.read[n] = TreatmentFile =>
                            /\ db'["TREATMENT_EPISODE"].gen = "latest"
                            /\ \E r \in 1..Len(db'["TREATMENT_EPISODE"].rows) :
                                  db'["TREATMENT_EPISODE"].rows[r].src[1] = n
    /\ pc = "commit" => (result' = "committed" /\ db' = db)

C5_MissingSourceOnlySkipped == [][C5_Step]_vars

\* a committed run in which the diagnosis file and the psychosocial file were
\* missing and the jail and treatment data were written
C5_Witness ==
    /\ pc = "closed"
    /\ result = "committed"
    /\ last.stage = "load_psychosocial_assessments"
    /\ ~last.read.exists
    /\ db["DIAGNOSIS_CODE"].gen # "latest"
    /\ db["PSYCHOSOCIAL_ASSESSMENT"].gen # "latest"
    /\ db["JAIL_DATA"].gen = "latest"
    /\ db["TREATMENT_EPISODE"].gen = "latest"

\* the file lacks a column its extractor needs to form the key
Unresolved(stage, f) ==
    /\ f.exists
    /\ LET columns == StripColumns(f.columns)
       IN  CASE stage = "load_criminal_charges" ->
                    \/ charge_date_column(columns) = None
                    \/ first_name_column(columns) = None
                    \/ last_name_column(columns) = None
                    \/ offense_column(columns) = None
                    \/ class_column(columns) = None
             [] stage = "load_mental_health_data" ->
                    find(columns, <<"NAME", "PARTICIPANT">>) = None
             [] stage \in {"load_risk_assessments", "load_jail_data"} ->
                    find(columns, <<"NAME", "PARTICIPANT">>) = None
             [] stage \in {"load_treatment_episodes", "load_psychosocial_assessments"} ->
                    find(columns, <<"NAME", "PARTICIPANT", "CLIENT">>) = None
             [] OTHER -> FALSE

\* the step of a single-file extractor that cannot resolve a key column
\* writes nothing and hands over to the next statement
C6_SingleFileStep ==
    \A i \in 1..Len(Extractors) :
        (/\ Runs(Extractors[i])
         /\ Extractors[i] \in SingleFile
         /\ Unresolved(Extractors[i], last'.read))
        => (db' = db /\ pc' = Following(i))

(***************************************************************************)
(* C6 as the specification states it.  A non-roster extractor that cannot  *)
(* resolve a key column (for the treatment extractor: the name column of   *)
(* one of its files) returns without writing to any table, raises nothing  *)
(* and hands over to the next extractor.                                   *)
(***************************************************************************)
C6_Original ==
    [][/\ C6_SingleFileStep
       /\ (/\ Runs("load_treatment_episodes")
           /\ \E n \in 1..Len(treatment_files) :
                 Unresolved("load_treatment_episodes", last'.read[n]))
          => (db' = db /\ pc' = "load_psychosocial_assessments")]_vars

(***************************************************************************)
(* C6, amended.  A single-file non-roster extractor that cannot resolve a  *)
(* key column writes nothing, raises nothing and hands over to the next    *)
(* statement.  The treatment extractor skips only the file whose name      *)
(* column is unresolved: it raises nothing, takes no row from that file,   *)
(* replaces TREATMENT_EPISODE by the rows of the files it processed, and   *)
(* leaves the store as it is only when it processed none.                  *)
(***************************************************************************)
C6_UnresolvedColumnSkips ==
    [][/\ C6_SingleFileStep
       /\ Runs("load_treatment_episodes") =>
            LET files == last'.read
            IN  /\ pc' = "load_psychosocial_assessments"
                /\ \A t \in Tables \ {"TREATMENT_EPISODE"} : db'[t] = db[t]
                /\ Processed(files) = {} => db' = db
                /\ Processed(files) # {} =>
                      /\ db'["TREATMENT_EPISODE"].gen = "latest"
                      /\ {db'["TREATMENT_EPISODE"].rows[r].src[1] :
                            r \in 1..Len(db'["TREATMENT_EPISODE"].rows)} \subseteq Processed(files)
                      /\ \A n \in Processed(files) :
                            files[n] = TreatmentFile =>
                                \E r \in 1..Len(db'["TREATMENT_EPISODE"].rows) :
                                    db'["TREATMENT_EPISODE"].rows[r].src[1] = n]_vars

\* the treatment extractor has returned from a run over one file without a
\* name column and one complete file, and the table holds the rows of the
\* complete file
C6_Witness ==
    /\ pc = "load_psychosocial_assessments"
    /\ last.stage = "load_treatment_episodes"
    /\ \E n \in 1..Len(treatment_files) : Unresolved("load_treatment_episodes", last.read[n])
    /\ \E n \in 1..Len(treatment_files) : last.read[n] = TreatmentFile
    /\ db["TREATMENT_EPISODE"].gen = "latest"
    /\ db["TREATMENT_EPISODE"].rows # <<>>

\* the treatment file names that carry the MH tag and the CD tag
MHTagged == {Chars("MHC_Treatment_MH_FY23.csv"), Chars("MHC_Treatment_MH_FY24.csv"),
             Chars("MHC_Treatment_MH_FY25.csv")}
CDTagged == {Chars("MHC_Treatment_CD_FY23.csv"), Chars("MHC_Treatment_CD_FY24.csv"),
             Chars("MHC_Treatment_CD_FY25.csv")}

(***************************************************************************)
(* C7.  Every row of TREATMENT_EPISODE has the treatment type of its       *)
(* file's tag: 'Mental Health' for a row of an MH-tagged file, 'Chemical   *)
(* Dependency' for a row of a CD-tagged file; and the table written by the *)
(* treatment extractor holds rows of exactly the files it processed.       *)
(***************************************************************************)
C7_TypeFollowsFileTag ==
    /\ \A row \in RowsOf("TREATMENT_EPISODE") :
        LET file == treatment_files[row.src[1]]
        IN  /\ file \in MHTagged => row.Treatment_Type = T("Mental Health")
            /\ file \in CDTagged => row.Treatment_Type = T("Chemical Dependency")
    /\ (last.stage = "load_treatment_episodes" /\ last.outcome = "written") =>
          {row.src[1] : row \in RowsOf("TREATMENT_EPISODE")} = Processed(last.read)

(***************************************************************************)
(* C8.  Every persisted jail row whose source row has no explicit days     *)
(* value and whose start and end dates parse has Days_Incarcerated equal   *)
(* to end date minus start date in whole days, whatever the other rows of  *)
(* the file carry.                                                         *)
(***************************************************************************)
C8_DaysDerivedPerRow ==
    (last.stage = "load_jail_data" /\ last.outcome = "written") =>
        LET columns == StripColumns(last.read.columns)
            days_col == find(columns, <<"DAYS", "LENGTH", "DURATION">>)
        IN  \A row \in RowsOf("JAIL_DATA") :
                (/\ days_col = None \/ isna(to_numeric(Cell(columns, last.read.rows[row.src], days_col)))
                 /\ ~isna(row.Start_Date)
                 /\ ~isna(row.End_Date))
                => row.Days_Incarcerated =
                       days_between(to_datetime(row.Start_Date), to_datetime(row.End_Date))

\* the keywords by which each extractor keyed by a name column finds it
NameKeywords ==
    [stage \in {"load_mental_health_data", "load_risk_assessments", "load_jail_data",
                "load_psychosocial_assessments"} |->
        IF stage = "load_psychosocial_assessments"
        THEN <<"NAME", "PARTICIPANT", "CLIENT">>
        ELSE <<"NAME", "PARTICIPANT">>]

\* the name cell of row r of file f, under the keywords of its extractor
NameCell(f, r, keywords) ==
    Cell(StripColumns(f.columns), f.rows[r], find(StripColumns(f.columns), keywords))

(***************************************************************************)
(* C9.  No persisted fact row comes from a source row without a            *)
(* participant: no fact row has a null Participant_ID, and the source row  *)
(* of every fact row an extractor has just written has its name field      *)
(* (for the charges: at least one of first and last name).                 *)
(***************************************************************************)
C9_NoFactWithoutParticipant ==
    /\ \A t \in {"PARTICIPANT_CHARGE", "PARTICIPANT_DIAGNOSIS", "RISK_ASSESSMENT", "JAIL_DATA",
                 "TREATMENT_EPISODE", "PSYCHOSOCIAL_ASSESSMENT", "MHC_ENROLLMENT"} :
          \A row \in RowsOf(t) : ~isna(row.Participant_ID)
    /\ last.outcome = "written" =>
        /\ last.stage = "load_participants_and_enrollment" =>
              \A row \in RowsOf("MHC_ENROLLMENT") :
                  ~isna(Cell(StripColumns(last.read[1].columns), last.read[1].rows[row.src],
                             REQUIRED_COL_NAME))
        /\ last.stage = "load_criminal_charges" =>
              LET columns == StripColumns(last.read.columns)
              IN  \A row \in RowsOf("PARTICIPANT_CHARGE") :
                      ~(/\ isna(Cell(columns, last.read.rows[row.src], first_name_column(columns)))
                        /\ isna(Cell(columns, last.read.rows[row.src], last_name_column(columns))))
        /\ last.stage \in DOMAIN NameKeywords =>
              \A t \in TablesOf[last.stage] : \A row \in RowsOf(t) :
                  ~isna(NameCell(last.read, row.src, NameKeywords[last.stage]))
        /\ last.stage = "load_treatment_episodes" =>
              \A row \in RowsOf("TREATMENT_EPISODE") :
                  ~isna(NameCell(last.read[row.src[1]], row.src[2],
                                 <<"NAME", "PARTICIPANT", "CLIENT">>))

(***************************************************************************)
(* C10.  Every row of PARTICIPANT_DIAGNOSIS comes from a source row that   *)
(* has a diagnosis code and a participant name, and carries that code.     *)
(***************************************************************************)
C10_DiagnosisCodePresent ==
    (last.stage = "load_mental_health_data" /\ last.outcome = "written") =>
        LET columns == StripColumns(last.read.columns)
            diag_code_col == find(columns, <<"DIAGNOSIS", "CODE", "DX">>)
        IN  \A row \in RowsOf("PARTICIPANT_DIAGNOSIS") :
                /\ ~isna(Cell(columns, last.read.rows[row.src], diag_code_col))
                /\ ~isna(NameCell(last.read, row.src, <<"NAME", "PARTICIPANT">>))
                /\ row.Diagnosis_Code = str_strip(Cell(columns, last.read.rows[row.src], diag_code_col))

(***************************************************************************)
(* C11.  A roster row appears in MHC_ENROLLMENT if and only if its         *)
(* participant key is present and its start date parses: the table holds   *)
(* exactly those rows, once each and in roster order; a kept row carries    *)
(* its start date in calendar form, and its end date in calendar form or    *)
(* absent when the end date is missing or does not parse.                   *)
(***************************************************************************)
\* the roster rows the enrollment table is to hold, by row number
Enrolled(f) ==
    LET cols == StripColumns(f.columns)
    IN  Pick([r \in 1..Len(f.rows) |-> r],
             [r \in 1..Len(f.rows) |->
                 /\ IsStr(Cell(cols, f.rows[r], REQUIRED_COL_NAME))
                 /\ ~IsNaT(to_datetime(Cell(cols, f.rows[r], Chars("Date Started MHC"))))])

\* the enrollment row e agrees with the roster row it was read from
EnrollmentOf(f, e) ==
    LET cols == StripColumns(f.columns)
        start == to_datetime(Cell(cols, f.rows[e.src], Chars("Date Started MHC")))
        end == to_datetime(Cell(cols, f.rows[e.src], Chars("Date Ended MHC")))
    IN  /\ ~isna(e.Participant_ID)
        /\ e.Start_Date = strftime(start)
        /\ e.End_Date = (IF IsNaT(end) THEN NaN ELSE strftime(end))

C11_EnrollmentNeedsStartDate ==
    (last.stage = "load_participants_and_enrollment" /\ last.outcome = "written") =>
        LET rows == db["MHC_ENROLLMENT"].rows
        IN  /\ db["MHC_ENROLLMENT"].gen = "latest"
            /\ [i \in 1..Len(rows) |-> rows[i].src] = Enrolled(last.read[1])
            /\ \A i \in 1..Len(rows) : EnrollmentOf(last.read[1], rows[i])

\* an enrollment without a usable end date was kept with End_Date absent
\* while a row of the same roster without a start date was left out
C11_Witness ==
    /\ last.stage = "load_participants_and_enrollment"
    /\ last.outcome = "written"
    /\ \E i \in 1..Len(db["MHC_ENROLLMENT"].rows) :
           /\ db["MHC_ENROLLMENT"].rows[i].End_Date = NaN
           /\ ~isna(db["MHC_ENROLLMENT"].rows[i].Start_Date)
    /\ Len(db["MHC_ENROLLMENT"].rows) < Len(last.read[1].rows)

(***************************************************************************)
(* C12.  find_column_by_keywords returns the first header, in header       *)
(* order, that qualifies - with exact_match a header qualifies when it     *)
(* equals some keyword without regard to case, otherwise when it contains  *)
(* some keyword without regard to case - and None when no header           *)
(* qualifies; no reordering of the keywords changes the header returned.   *)
(***************************************************************************)
Qualifies(header, keywords, exact) ==
    \E k \in 1..Len(keywords) :
        IF exact THEN Lower(header) = Lower(keywords[k])
        ELSE Contains(Lower(header), Lower(keywords[k]))

\* the keyword list in every order
Reordered(keywords) ==
    {[i \in 1..Len(keywords) |-> keywords[p[i]]] : p \in Permutations(1..Len(keywords))}

C12_FirstQualifyingHeader ==
    (pc = "returned" /\ last.stage = "find_column_by_keywords") =>
        LET a == last.read
            q == {i \in 1..Len(a.columns) : Qualifies(a.columns[i], a.keywords, a.exact_match)}
        IN  /\ q = {} => last.outcome = None
            /\ q # {} => \E i \in q : /\ last.outcome = a.columns[i]
                                       /\ \A j \in q : i <= j
            /\ \A ks \in Reordered(a.keywords) :
                   find_column_by_keywords(a.columns, ks, a.exact_match) = last.outcome

\* two headers qualify, the second one by the first keyword and the first
\* one only by the second keyword, and the first header was returned
C12_Witness ==
    /\ pc = "returned"
    /\ last.stage = "find_column_by_keywords"
    /\ Len(last.read.columns) = 2
    /\ Len(last.read.keywords) = 2
    /\ Qualifies(last.read.columns[2], <<last.read.keywords[1]>>, last.read.exact_match)
    /\ ~Qualifies(last.read.columns[1], <<last.read.keywords[1]>>, last.read.exact_match)
    /\ Qualifies(last.read.columns[1], <<last.read.keywords[2]>>, last.read.exact_match)
    /\ last.outcome = last.read.columns[1]

(***************************************************************************)
(* C13.  create_participant_id returns None for a missing or non-text      *)
(* name; for a text it returns the text in lower case with every space,    *)
(* period and slash removed, every comma turned into a hyphen and the      *)
(* white space at both ends trimmed.  Applied to its own result it returns *)
(* that result, and names that differ only in letter case get one key.     *)
(***************************************************************************)
\* what becomes of one character of a name
KeyPiece(c) ==
    IF c \in {" ", ".", "/"} THEN <<>>
    ELSE IF c = "," THEN <<"-">>
    ELSE <<LowerChar(c)>>

KeyOf(t) == Strip(Flatten([i \in 1..Len(t) |-> KeyPiece(t[i])]))

CodeOccurrences(f) ==
    LET data == Tail(f.rows)
        n == Len(data)
        all == [i \in 1..(2 * n) |->
                   IF i <= n THEN [code |-> data[i][1], description |-> data[i][2]]
                   ELSE [code |-> data[i - n][5], description |-> data[i - n][6]]]
    IN  Pick(all, [i \in 1..(2 * n) |-> ~isna(all[i].code)])

\* a cell as the text the table stores, trimmed
Trimmed(c) == Str(Strip(astype_str(c).s))

\* the description stored for the code: the one of its first occurrence
FirstDescription(occ, code) ==
    LET k == CHOOSE i \in 1..Len(occ) :
                 /\ Trimmed(occ[i].code) = code
                 /\ \A j \in 1..(i - 1) : Trimmed(occ[j].code) # code
    IN  Trimmed(occ[k].description)

C14_OneRowPerCode ==
    (last.stage = "load_diagnosis_codes" /\ last.outcome = "written") =>
        LET rows == db["DIAGNOSIS_CODE"].rows
            occ == CodeOccurrences(last.read)
        IN  /\ db["DIAGNOSIS_CODE"].gen = "latest"
            /\ {rows[i].Code : i \in 1..Len(rows)} = {Trimmed(occ[k].code) : k \in 1..Len(occ)}
            /\ \A i \in 1..Len(rows) : \A j \in 1..Len(rows) :
                   rows[i].Code = rows[j].Code => i = j
            /\ \A i \in 1..Len(rows) :
                   rows[i].Description = FirstDescription(occ, rows[i].Code)

\* a code that stands in both pairs with two descriptions got one row, and
\* the description kept is that of a pair 0-1 row below the pair 4-5 row
C14_Witness ==
    /\ last.stage = "load_diagnosis_codes"
    /\ last.outcome = "written"
    /\ \E i \in 1..Len(db["DIAGNOSIS_CODE"].rows) :
           \E r \in 2..Len(last.read.rows) : \E q \in 2..(r - 1) :
               /\ ~isna(last.read.rows[r][1])
               /\ ~isna(last.read.rows[q][5])
               /\ Trimmed(last.read.rows[r][1]) = db["DIAGNOSIS_CODE"].rows[i].Code
               /\ Trimmed(last.read.rows[q][5]) = db["DIAGNOSIS_CODE"].rows[i].Code
               /\ Trimmed(last.read.rows[q][6]) # Trimmed(last.read.rows[r][2])
               /\ db["DIAGNOSIS_CODE"].rows[i].Description = Trimmed(last.read.rows[r][2])

(***************************************************************************)
(* C15.  After a criminal-charge load that wrote its tables, CHARGE_OFFENSE *)
(* holds one row per distinct raw (offense, class) pair of the rows that   *)
(* have a charge date, numbered 1..N in the order the pairs first appear;  *)
(* PARTICIPANT_CHARGE holds exactly one row per row with a charge date,    *)
(* and the Offense_ID of each is the number CHARGE_OFFENSE gives to the    *)
(* (offense, class) pair of that charge.                                   *)
(***************************************************************************)
\* the rows of the charges file that have a charge date, by row number
DatedCharges(f) ==
    LET cols == StripColumns(f.columns)
    IN  Pick([r \in 1..Len(f.rows) |-> r],
             [r \in 1..Len(f.rows) |-> ~isna(Cell(cols, f.rows[r], charge_date_column(cols)))])

\* the raw (offense, class) pair of row r of the charges file
RawPair(f, r) ==
    LET cols == StripColumns(f.columns)
    IN  <<Cell(cols, f.rows[r], offense_column(cols)), Cell(cols, f.rows[r], class_column(cols))>>

\* CHARGE_OFFENSE numbers the distinct pairs in their order of appearance
OffensesNumbered(f, offs) ==
    LET dated == DatedCharges(f)
        distinct == drop_duplicates([k \in 1..Len(dated) |-> RawPair(f, dated[k])])
    IN  /\ Len(offs) = Len(distinct)
        /\ \A i \in 1..Len(offs) : offs[i].Offense_ID = Num(i) /\ offs[i].raw = distinct[i]

\* PARTICIPANT_CHARGE has the rows with a charge date, once each
OneRowPerCharge(f, charges) ==
    [i \in 1..Len(charges) |-> charges[i].src] = DatedCharges(f)

\* every charge carries the number of its own (offense, class) pair
OwnOffense(f, offs, charges) ==
    \A i \in 1..Len(charges) :
        \E j \in 1..Len(offs) :
            /\ offs[j].raw = RawPair(f, charges[i].src)
            /\ charges[i].Offense_ID = offs[j].Offense_ID

C15_ChargesNormalised ==
    (last.stage = "load_criminal_charges" /\ last.outcome = "written") =>
        /\ OffensesNumbered(last.read, db["CHARGE_OFFENSE"].rows)
        /\ OneRowPerCharge(last.read, db["PARTICIPANT_CHARGE"].rows)
        /\ OwnOffense(last.read, db["CHARGE_OFFENSE"].rows, db["PARTICIPANT_CHARGE"].rows)

====
